---- MODULE Spec2Model ----
(***************************************************************************)
(* Model of src/panels/AIPanel.ts: the AIPanel class (the session          *)
(* orchestrator and its inference client), the webview script that talks   *)
(* to it, and the message types of src/types/chat.                         *)
(*                                                                         *)
(* JavaScript runs each handler to completion between awaits, so           *)
(* _handleQuestion is two atomic steps: the part up to the await of        *)
(* axios.post (HandleQuestion) and its continuation once the request       *)
(* settles (AxiosSettle). Several invocations may be suspended at once.    *)
(***************************************************************************)
EXTENDS Integers, Sequences, FiniteSets, TLC

\* ---------------------------------------------------------------- bounds
MaxPanels == 2
MaxInv == 2

Panels == 1..MaxPanels
Invs == 1..MaxInv
FirstPanel == {p \in Panels : \A q \in Panels : p <= q}

\* ---------------------------------------------------------------- inputs
\* An optional value is a sequence of length 0 (absent) or 1 (present).
Null == <<>>
Some(x) == <<x>>

\* config.getApiKey(), read anew by every invocation: empty when the setting
\* is not configured.
ApiKeys == {"", "sk-test"}

\* currentImage in the webview: null, or the {data, type, name} of an upload.
ImagePayload == [data |-> "data:image/png;base64,AAAA", type |-> "image/png", name |-> "a.png"]

\* What the webview's sendMessage posts: the trimmed text of questionInput
\* and currentImage. The text is empty when only an image is sent.
AskQuestion(text, image) == [command |-> "askQuestion", text |-> text, image |-> image]
InboundMessages == {AskQuestion("What is 6*7?", Null), AskQuestion("", Some(ImagePayload))}

\* What axios.post can settle with.
\*   ok:    a 2xx response; choices holds choices[k].message.content;
\*   axios: an AxiosError; status and the body's error.message are optional;
\*   throw: any other exception raised inside the try block.
OkResponse(choices) ==
    [kind |-> "ok", choices |-> choices, status |-> Null, bodyMessage |-> Null, message |-> ""]
AxiosError(status, bodyMessage, message) ==
    [kind |-> "axios", choices |-> <<>>, status |-> status, bodyMessage |-> bodyMessage,
     message |-> message]
OtherError(message) ==
    [kind |-> "throw", choices |-> <<>>, status |-> Null, bodyMessage |-> Null,
     message |-> message]
NoOutcome ==
    [kind |-> "none", choices |-> <<>>, status |-> Null, bodyMessage |-> Null, message |-> ""]

Outcomes ==
    { OkResponse(<<"42">>), OkResponse(<<"">>), OkResponse(<<>>),
      AxiosError(Some(401), Some("invalid key"), "Request failed with status code 401"),
      AxiosError(Some(500), Some(""), "Request failed with status code 500"),
      AxiosError(Null, Null, "Network Error"),
      OtherError("boom") }

PanelOutcomes ==
    { OkResponse(<<"42">>),
      AxiosError(Some(401), Some("invalid key"), "Request failed with status code 401") }

\* ---------------------------------------------------------------- state
VARIABLES
    currentPanel,  \* AIPanel.currentPanel: a panel, or 0 for undefined
    panelState,    \* per panel: "none" (not created), "live", "disposed"
    messages,      \* per panel: AIPanel._messages
    outbox,        \* per panel: the events given to _panel.webview.postMessage,
                   \* whether or not the call went through
    isLoading,     \* per panel: the webview script's isLoading flag
    nInv,          \* number of _handleQuestion invocations started so far
    inv            \* per invocation of _handleQuestion: pc (idle, awaiting the
                   \* network, done), its panel, the inbound message, the key
                   \* it read, the request envelope it sent, how axios.post
                   \* settled, the events it posted, and where it wrote to
                   \* _messages: userIdx and asstIdx are the positions of the
                   \* turns it pushed (0: none), grew is by how much its own
                   \* steps lengthened the log, posts counts its calls of
                   \* axios.post, rejected tells that its promise rejected

vars == <<currentPanel, panelState, messages, outbox, isLoading, nInv, inv>>

IdleInv ==
    [pc |-> "idle", panel |-> 0, message |-> AskQuestion("", Null),
     key |-> "", userIdx |-> 0, asstIdx |-> 0, grew |-> 0, envelope |-> <<>>,
     outcome |-> NoOutcome, events |-> <<>>, posts |-> 0, rejected |-> FALSE]

\* ---------------------------------------------------------------- helpers
\* JavaScript truthiness of a string: `if (s)`, `!s`, `a || b`.
Truthy(s) == s # ""

\* Date.now(): the model's clock is the ordinal of the invocation.
DateNow == nInv + 1

\* Mutant: the question is logged as a system turn.
UserMessage_SystemRole(question) ==
    [role |-> "system", content |-> question, timestamp |-> DateNow]

\* const userMessage: Message = {role, content, timestamp}
UserMessage(question) ==
    [role |-> "user", content |-> question, timestamp |-> DateNow]

\* const aiMessage: AIMessage = {role, content}
AIMessage(response) ==
    [role |-> "assistant", content |-> response]

\* sendMessage: if (question || currentImage)
SendsMessage(question, currentImage) == Truthy(question) \/ currentImage # Null

\* Mutant: the check tests for an undefined key only, so an empty one passes.
ApiKeyMissing_UndefinedOnly(key) == key \notin ApiKeys

\* if (!this._apiKey) throw ...
ApiKeyMissing(key) == ~Truthy(key)

ApiKeyErrorMessage == "OpenAI API key is not configured. Please set it in your settings."

\* Mutant: only the latest turn is sent.
FormatMessages_LatestOnly(msgs) ==
    [k \in 1..1 |-> [role |-> msgs[Len(msgs)].role, content |-> msgs[Len(msgs)].content]]

\* messages.map((msg) => ({role: msg.role, content: msg.content}))
FormatMessages(msgs) ==
    [k \in 1..Len(msgs) |-> [role |-> msgs[k].role, content |-> msgs[k].content]]

\* Mutant: `??` in place of `||`, so an empty provider message is kept.
AxiosErrorMessage_Nullish(o) ==
    IF o.bodyMessage # Null THEN o.bodyMessage[1] ELSE o.message

\* error.response?.data?.error?.message || error.message
AxiosErrorMessage(o) ==
    IF o.bodyMessage # Null /\ Truthy(o.bodyMessage[1]) THEN o.bodyMessage[1] ELSE o.message

Returned(text) == [threw |-> FALSE, text |-> text]
Thrown(message) == [threw |-> TRUE, text |-> message]

\* Mutant: zero choices resolve with the no-response text instead of throwing.
CallOpenAI_NoResponseAsText(o) ==
    CASE o.kind = "ok" ->
           IF Len(o.choices) > 0
           THEN [threw |-> FALSE, text |-> o.choices[1]]
           ELSE [threw |-> FALSE, text |-> "No response from OpenAI API"]
      [] o.kind = "axios" -> [threw |-> TRUE, text |-> "API error: " \o AxiosErrorMessage(o)]
      [] OTHER -> [threw |-> TRUE, text |-> "Error calling OpenAI API: " \o o.message]

\* The part of _callOpenAI after axios.post settles: the value it resolves
\* with, or the message of the Error it rejects with. The "No response"
\* Error is thrown inside the try block, so the catch block wraps it.
CallOpenAI(o) ==
    CASE o.kind = "ok" ->
           IF Len(o.choices) > 0
           THEN Returned(o.choices[1])
           ELSE Thrown("Error calling OpenAI API: " \o "No response from OpenAI API")
      [] o.kind = "axios" -> Thrown("API error: " \o AxiosErrorMessage(o))
      [] OTHER -> Thrown("Error calling OpenAI API: " \o o.message)

\* Mutant: the formatted messages are written back into the array.
CallOpenAIMessages_FormatsInPlace(msgs) ==
    [k \in 1..Len(msgs) |-> [role |-> msgs[k].role, content |-> msgs[k].content]]

\* _callOpenAI only reads the array it is given (messages.map builds a new
\* one): this is the array as the call leaves it.
CallOpenAIMessages(msgs) == msgs

\* Mutant: a failed request is posted once more.
RetriesAfter_Once(r) == IF r.threw THEN 1 ELSE 0

\* The catch block of _callOpenAI rethrows: a settled request is never
\* posted again.
RetriesAfter(r) == 0

\* Mutant: the catch block retracts the last turn of the failed exchange.
MessagesAfterError_Retract(msgs, errorMessage) ==
    SubSeq(msgs, 1, Len(msgs) - 1)

\* The catch block of _handleQuestion leaves _messages as it finds it.
MessagesAfterError(msgs, errorMessage) == msgs

\* Mutant: the response event is posted without the text.
ResponseEvent_NoContent(content) == [type |-> "response", content |-> ""]

ResponseEvent(content) == [type |-> "response", content |-> content]
ErrorEvent(content) == [type |-> "error", content |-> content]

\* Posting to a panel that was disposed may throw; the text of that error.
PostErrorMessage == "Webview is disposed"
PostMayThrow(p) == panelState[p] = "disposed"

\* The webview's message listener: a response or error event hides the
\* loading state. A disposed panel has no webview left to receive it.
Deliver(p, events) ==
    IF events # <<>> /\ panelState[p] = "live"
    THEN [isLoading EXCEPT ![p] = FALSE]
    ELSE isLoading

\* ---------------------------------------------------------------- init
Init ==
    /\ currentPanel = 0
    /\ panelState = [p \in Panels |-> "none"]
    /\ messages = [p \in Panels |-> <<>>]
    /\ outbox = [p \in Panels |-> <<>>]
    /\ isLoading = [p \in Panels |-> FALSE]
    /\ nInv = 0
    /\ inv = [i \in Invs |-> IdleInv]

\* ---------------------------------------------------------------- actions
\* AIPanel.createOrShow: always a new panel, which becomes currentPanel.
CreateOrShow(p) ==
    /\ panelState[p] = "none"
    /\ \A q \in Panels : q < p => panelState[q] # "none"
    /\ panelState' = [panelState EXCEPT ![p] = "live"]
    /\ currentPanel' = p
    /\ UNCHANGED <<messages, outbox, isLoading, nInv, inv>>

\* AIPanel.dispose (also the onDidDispose callback).
Dispose(p) ==
    /\ panelState[p] = "live"
    /\ panelState' = [panelState EXCEPT ![p] = "disposed"]
    /\ currentPanel' = 0
    /\ isLoading' = [isLoading EXCEPT ![p] = FALSE]
    /\ UNCHANGED <<messages, outbox, nInv, inv>>

\* The panel is created without retainContextWhenHidden, so hiding and
\* showing it reloads webview.html: the script starts again, not loading.
WebviewReload(p) ==
    /\ panelState[p] = "live"
    /\ isLoading[p]
    /\ isLoading' = [isLoading EXCEPT ![p] = FALSE]
    /\ UNCHANGED <<currentPanel, panelState, messages, outbox, nInv, inv>>

\* The webview's sendMessage and the onDidReceiveMessage handler it
\* triggers: _handleQuestion(message.text) up to the await of axios.post.
HandleQuestion(p, message, apiKey) ==
    LET i == nInv + 1
        question == message.text
    IN
    /\ nInv < MaxInv
    /\ panelState[p] = "live"
    /\ ~isLoading[p]
    /\ SendsMessage(message.text, message.image)
    /\ message.command = "askQuestion"
    /\ nInv' = i
    /\ IF ApiKeyMissing(apiKey)
       THEN LET events == <<ErrorEvent(ApiKeyErrorMessage)>> IN
            /\ messages' = messages
            /\ outbox' = [outbox EXCEPT ![p] = @ \o events]
            /\ isLoading' = [isLoading EXCEPT ![p] = FALSE]
            /\ inv' = [inv EXCEPT ![i] =
                         [IdleInv EXCEPT !.pc = "done", !.panel = p, !.message = message,
                                         !.key = apiKey, !.events = events]]
       ELSE LET pushed == Append(messages[p], UserMessage(question))
                called == CallOpenAIMessages(pushed)
            IN
            /\ messages' = [messages EXCEPT ![p] = called]
            /\ outbox' = outbox
            /\ isLoading' = [isLoading EXCEPT ![p] = TRUE]
            /\ inv' = [inv EXCEPT ![i] =
                         [IdleInv EXCEPT !.pc = "awaiting", !.panel = p, !.message = message,
                                         !.key = apiKey, !.userIdx = Len(pushed),
                                         !.grew = Len(called) - Len(messages[p]),
                                         !.posts = 1,
                                         !.envelope = FormatMessages(pushed)]]
    /\ UNCHANGED <<currentPanel, panelState>>

\* Mutant: the request body is read from the log when the request goes out.
RequestBody_LiveLog(formattedMessages, log) == FormatMessages(log)

\* axios.post(..., {messages: formattedMessages, ...}): the body is the array
\* messages.map built, which no later push to _messages reaches.
RequestBody(formattedMessages, log) == formattedMessages

\* axios.post settles with outcome o: the rest of _callOpenAI and of
\* _handleQuestion run to completion. An exception of the try block, the
\* one of a failed postMessage included, enters the catch block; one thrown
\* by the catch block's own postMessage leaves _handleQuestion.
AxiosSettle(i, o, postThrows) ==
    LET p == inv[i].panel
        r == CallOpenAI(o)
        returned == CallOpenAIMessages(messages[p])
        pushes == ~r.threw /\ Truthy(r.text)
        afterTry == IF pushes THEN Append(returned, AIMessage(r.text)) ELSE returned
        caught == r.threw \/ (pushes /\ postThrows)
        errorMessage == IF r.threw THEN r.text ELSE PostErrorMessage
        log == IF caught THEN MessagesAfterError(afterTry, errorMessage) ELSE afterTry
        events == (IF pushes THEN <<ResponseEvent(r.text)>> ELSE <<>>)
                  \o (IF caught THEN <<ErrorEvent(errorMessage)>> ELSE <<>>)
    IN
    /\ inv[i].pc = "awaiting"
    /\ postThrows => PostMayThrow(p)
    /\ messages' = [messages EXCEPT ![p] = log]
    /\ outbox' = [outbox EXCEPT ![p] = @ \o events]
    /\ isLoading' = Deliver(p, events)
    /\ inv' = [inv EXCEPT ![i].pc = "done",
                          ![i].outcome = o,
                          ![i].envelope = RequestBody(@, messages[p]),
                          ![i].asstIdx = IF pushes THEN Len(afterTry) ELSE 0,
                          ![i].grew = @ + Len(log) - Len(messages[p]),
                          ![i].events = @ \o events,
                          ![i].posts = @ + RetriesAfter(r),
                          ![i].rejected = caught /\ postThrows]
    /\ UNCHANGED <<currentPanel, panelState, nInv>>

\* One session: the first panel, from its creation to its disposal, with
\* every way the request can settle.
Next ==
    \/ \E p \in FirstPanel : CreateOrShow(p)
    \/ \E p \in FirstPanel : Dispose(p)
    \/ \E p \in FirstPanel : WebviewReload(p)
    \/ \E p \in FirstPanel, message \in InboundMessages, key \in ApiKeys :
          HandleQuestion(p, message, key)
    \/ \E i \in Invs, o \in Outcomes, postThrows \in BOOLEAN : AxiosSettle(i, o, postThrows)

Spec == Init /\ [][Next]_vars

\* Several sessions side by side, each request settling with a success or a
\* failure.
NextPanels ==
    \/ \E p \in Panels : CreateOrShow(p)
    \/ \E p \in Panels : Dispose(p)
    \/ \E p \in Panels : WebviewReload(p)
    \/ \E p \in Panels, message \in InboundMessages, key \in ApiKeys :
          HandleQuestion(p, message, key)
    \/ \E i \in Invs, o \in PanelOutcomes, postThrows \in BOOLEAN :
          AxiosSettle(i, o, postThrows)

SpecPanels == Init /\ [][NextPanels]_vars

\* ---------------------------------------------------------------- properties
Log(i) == messages[inv[i].panel]
Done(i) == inv[i].pc = "done"
KeyPresent(i) == inv[i].key # ""

\* axios.post settled with a response that carries a first choice.
Succeeded(o) == o.kind = "ok" /\ Len(o.choices) > 0
\* HTTP error, transport error, zero choices, or any other exception.
Failed(o) == o.kind \in {"axios", "throw"} \/ (o.kind = "ok" /\ Len(o.choices) = 0)

IsPrefix(s, t) == Len(s) <= Len(t) /\ \A k \in 1..Len(s) : s[k] = t[k]

\* C1: an invocation with the credential present whose request returns some
\* text, whatever it is, lengthens the log by exactly 2: a user turn holding
\* the question, then an assistant turn holding the returned text.
C1_SuccessAppendsUserThenAssistant ==
    \A i \in Invs :
        Done(i) /\ KeyPresent(i) /\ Succeeded(inv[i].outcome) =>
            /\ inv[i].grew = 2
            /\ 0 < inv[i].userIdx /\ inv[i].userIdx < inv[i].asstIdx
            /\ inv[i].asstIdx <= Len(Log(i))
            /\ Log(i)[inv[i].userIdx].role = "user"
            /\ Log(i)[inv[i].userIdx].content = inv[i].message.text
            /\ Log(i)[inv[i].asstIdx].role = "assistant"
            /\ Log(i)[inv[i].asstIdx].content = inv[i].outcome.choices[1]

\* C2: an invocation with the credential present whose request fails
\* lengthens the log by exactly 1, the user turn, and appends no assistant turn.
C2_FailureAppendsUserOnly ==
    \A i \in Invs :
        Done(i) /\ KeyPresent(i) /\ Failed(inv[i].outcome) =>
            /\ inv[i].grew = 1
            /\ inv[i].asstIdx = 0
            /\ 0 < inv[i].userIdx /\ inv[i].userIdx <= Len(Log(i))
            /\ Log(i)[inv[i].userIdx].role = "user"
            /\ Log(i)[inv[i].userIdx].content = inv[i].message.text

\* A zero-choices exchange has completed on a log that already held the
\* dangling user turn of an exchange that failed with an AxiosError.
C2_Witness ==
    \E i \in Invs :
        /\ Done(i) /\ KeyPresent(i)
        /\ inv[i].outcome.kind = "ok" /\ inv[i].outcome.choices = <<>>
        /\ inv[i].userIdx = 2
        /\ \E j \in Invs : Done(j) /\ KeyPresent(j) /\ inv[j].outcome.kind = "axios"

\* C3: an invocation that finds the API key missing or empty leaves the log
\* as it is and posts one error event saying the key is not configured.
C3_MissingKeyDropsInput ==
    \A i \in Invs :
        Done(i) /\ ~KeyPresent(i) =>
            /\ inv[i].grew = 0
            /\ inv[i].userIdx = 0 /\ inv[i].asstIdx = 0
            /\ inv[i].outcome.kind = "none"
            /\ inv[i].events =
                 << [type |-> "error",
                     content |-> "OpenAI API key is not configured. Please set it in your settings."] >>
            /\ \A k \in 1..Len(Log(i)) :
                 Log(i)[k].role = "user" => Log(i)[k].timestamp # i

\* An invocation without a key has completed on a panel whose log is not empty.
C3_Witness ==
    \E i \in Invs :
        /\ Done(i) /\ ~KeyPresent(i)
        /\ Len(Log(i)) > 0
        /\ Len(outbox[inv[i].panel]) > 0

\* C4: a completed invocation has posted exactly one event: a response event
\* if the exchange succeeded, an error event otherwise.
C4_ExactlyOneEvent ==
    \A i \in Invs :
        Done(i) =>
            /\ Len(inv[i].events) = 1
            /\ inv[i].events[1].type =
                 IF KeyPresent(i) /\ Succeeded(inv[i].outcome) THEN "response" ELSE "error"

\* C5: an assistant turn is appended only directly after the user turn of
\* the same invocation.
C5_AssistantFollowsOwnUserTurn ==
    \A i \in Invs :
        inv[i].asstIdx > 0 => inv[i].asstIdx = inv[i].userIdx + 1

\* C6: while an invocation awaits the network, no other invocation mutates
\* the log of its panel: the log is still as it was when the call was issued.
C6_NoMutationWhileSuspended ==
    \A i \in Invs :
        inv[i].pc = "awaiting" => Len(Log(i)) = inv[i].userIdx

\* C7: the log of every panel is append-only: each step leaves it a prefix
\* of what it becomes.
C7_AppendOnly ==
    [][\A p \in Panels : IsPrefix(messages[p], messages'[p])]_vars

\* A log that went through a failed exchange and then a successful one.
C7_Witness ==
    \E i, j \in Invs :
        /\ Done(i) /\ Done(j) /\ inv[i].panel = inv[j].panel
        /\ KeyPresent(i) /\ Failed(inv[i].outcome)
        /\ inv[j].asstIdx = 3
        /\ Len(Log(i)) = 3

\* C8: the envelope of an invocation holds the {role, content} of every turn
\* the log held when the call was issued, in log order, nothing left out.
C8_EnvelopeIsWholeLog ==
    \A i \in Invs :
        inv[i].userIdx > 0 =>
            /\ Len(inv[i].envelope) = inv[i].userIdx
            /\ \A k \in 1..inv[i].userIdx :
                 inv[i].envelope[k] = [role |-> Log(i)[k].role, content |-> Log(i)[k].content]

\* An envelope that carries the dangling user turn of an earlier failed
\* exchange before the new question.
C8_Witness ==
    \E i, j \in Invs :
        /\ Done(i) /\ KeyPresent(i) /\ Failed(inv[i].outcome)
        /\ inv[j].panel = inv[i].panel
        /\ inv[i].userIdx = 1 /\ inv[j].userIdx = 2
        /\ Len(inv[j].envelope) = 2
        /\ inv[j].envelope[1].role = "user" /\ inv[j].envelope[2].role = "user"

\* C9: the user turn carries the image of the inbound event when there is
\* one, and no image otherwise.
C9_UserTurnCarriesImage ==
    \A i \in Invs :
        inv[i].userIdx > 0 =>
            LET turn == Log(i)[inv[i].userIdx] IN
            IF inv[i].message.image # Null
            THEN "image" \in DOMAIN turn /\ turn.image = inv[i].message.image[1]
            ELSE "image" \notin DOMAIN turn

\* C10: on an AxiosError the error event reads "API error: " followed by the
\* provider's message when the body has a non-empty one, else by the
\* transport's error text; the log gains the user turn only.
C10_ApiErrorMessage ==
    \A i \in Invs :
        Done(i) /\ inv[i].outcome.kind = "axios" =>
            LET o == inv[i].outcome
                provider == IF o.bodyMessage = Null THEN "" ELSE o.bodyMessage[1]
                text == IF provider # "" THEN provider ELSE o.message
            IN
            /\ inv[i].events = << [type |-> "error", content |-> "API error: " \o text] >>
            /\ inv[i].grew = 1 /\ inv[i].asstIdx = 0

\* HTTP 401 with body error message "invalid key" has been reported as such,
\* and an error with an empty provider message by its transport text.
C10_Witness ==
    \E i, j \in Invs :
        /\ Done(i) /\ inv[i].outcome.status = <<401>>
        /\ inv[i].outcome.bodyMessage = <<"invalid key">>
        /\ inv[i].events = << [type |-> "error", content |-> "API error: invalid key"] >>
        /\ Done(j) /\ inv[j].outcome.bodyMessage = <<"">>
        /\ inv[j].events =
             << [type |-> "error", content |-> "API error: Request failed with status code 500"] >>

\* C11: a response with zero choices ends as the no-response failure: the
\* error event carries the no-response message itself, not a wrapped
\* exception, and no assistant turn is appended.
C11_EmptyResponseMessage ==
    \A i \in Invs :
        Done(i) /\ inv[i].outcome.kind = "ok" /\ inv[i].outcome.choices = <<>> =>
            /\ inv[i].events = << [type |-> "error", content |-> "No response from OpenAI API"] >>
            /\ inv[i].asstIdx = 0

\* C12: no invocation of _handleQuestion ends with its promise rejected,
\* whatever the key check, the request and the posting of the event do.
C12_NeverRejects ==
    \A i \in Invs : ~inv[i].rejected

\* The number of user turns among the first n turns of a log.
RECURSIVE UserTurns(_, _)
UserTurns(log, n) ==
    IF n = 0 THEN 0
    ELSE UserTurns(log, n - 1) + (IF log[n].role = "user" THEN 1 ELSE 0)

\* The number of assistant turns among the first n turns of a log.
RECURSIVE AssistantTurns(_, _)
AssistantTurns(log, n) ==
    IF n = 0 THEN 0
    ELSE AssistantTurns(log, n - 1) + (IF log[n].role = "assistant" THEN 1 ELSE 0)

\* The number of axios.post calls made so far by the first n invocations on panel p.
RECURSIVE PostsOn(_, _)
PostsOn(p, n) ==
    IF n = 0 THEN 0
    ELSE PostsOn(p, n - 1) + (IF inv[n].panel = p THEN inv[n].posts ELSE 0)

\* C13: an invocation posts exactly once when the key is present and never
\* when it is missing, and the posts of a session are as many as the user
\* turns of its log.
C13_OnePostPerUserTurn ==
    /\ \A i \in Invs :
         inv[i].pc # "idle" => inv[i].posts = (IF KeyPresent(i) THEN 1 ELSE 0)
    /\ \A p \in Panels : PostsOn(p, MaxInv) = UserTurns(messages[p], Len(messages[p]))

\* A failed request and an invocation without a key have both completed.
C13_Witness ==
    \E i, j \in Invs :
        /\ Done(i) /\ KeyPresent(i) /\ Failed(inv[i].outcome) /\ inv[i].posts = 1
        /\ Done(j) /\ ~KeyPresent(j) /\ inv[j].posts = 0
        /\ inv[i].panel = inv[j].panel
        /\ Len(Log(i)) = 1

\* An invocation that ended in failure: missing key, API error, empty
\* response or other exception.
EndedInFailure(i) == Done(i) /\ (~KeyPresent(i) \/ Failed(inv[i].outcome))

\* C14: after a failed invocation, a later invocation on the same panel with
\* the key present and a successful response appends its user and assistant
\* turns and posts a response event.
C14_SuccessAfterFailure ==
    \A i, j \in Invs :
        /\ i < j /\ EndedInFailure(i) /\ inv[j].panel = inv[i].panel
        /\ Done(j) /\ KeyPresent(j) /\ Succeeded(inv[j].outcome)
        => /\ inv[j].grew = 2
           /\ inv[j].asstIdx > inv[j].userIdx
           /\ inv[j].events = << [type |-> "response", content |-> inv[j].outcome.choices[1]] >>

\* C15: _callOpenAI never changes the log: every log consists of exactly the
\* turns the invocations of _handleQuestion pushed, each where it was pushed
\* and as it was pushed.
C15_LogIsWhatWasPushed ==
    \A p \in Panels :
        /\ \A k \in 1..Len(messages[p]) :
             \E i \in Invs :
                /\ inv[i].panel = p
                /\ \/ /\ inv[i].userIdx = k
                      /\ messages[p][k] =
                           [role |-> "user", content |-> inv[i].message.text, timestamp |-> i]
                   \/ /\ inv[i].asstIdx = k
                      /\ messages[p][k] =
                           [role |-> "assistant", content |-> inv[i].outcome.choices[1]]
        /\ \A i \in Invs :
             inv[i].panel = p => inv[i].userIdx <= Len(messages[p])
                                 /\ inv[i].asstIdx <= Len(messages[p])

\* _callOpenAI has returned once with a text, once with zero choices, and
\* has been entered a second time with a log of two turns.
C15_Witness ==
    \E i, j \in Invs :
        /\ i # j /\ inv[i].panel = inv[j].panel
        /\ Done(i) /\ inv[i].asstIdx = 2
        /\ Done(j) /\ inv[j].userIdx = 3 /\ inv[j].outcome.choices = <<>>
        /\ inv[j].outcome.kind = "ok"
        /\ Len(Log(i)) = 3

\* The step is a dispose of panel p, or the start or the completion of an
\* invocation of _handleQuestion on panel p.
ActsOn(p) ==
    \/ panelState[p] = "live" /\ panelState'[p] = "disposed"
    \/ nInv' = nInv + 1 /\ inv'[nInv'].panel = p
    \/ \E i \in Invs : /\ inv[i].panel = p
                       /\ inv[i].pc = "awaiting" /\ inv'[i].pc = "done"

\* C16: with two panels alive, a dispose or an invocation on one of them
\* leaves the other's log, events and webview as they were, and leaves
\* AIPanel.currentPanel alone when it refers to the other.
C16_SessionsIndependent ==
    [][\A p, q \in Panels :
          /\ p # q /\ panelState[p] = "live" /\ panelState[q] = "live"
          /\ ActsOn(p)
          => /\ messages'[q] = messages[q]
             /\ outbox'[q] = outbox[q]
             /\ isLoading'[q] = isLoading[q]
             /\ panelState'[q] = panelState[q]
             /\ (currentPanel = q => currentPanel' = q)]_vars

\* C17: a live webview is in its loading state only while a request of its
\* panel is in flight: once every exchange has completed, an event has hidden
\* the loading state.
C17_LoadingOnlyWhileAwaiting ==
    \A p \in Panels :
        panelState[p] = "live" /\ isLoading[p]
        => \E i \in Invs : inv[i].panel = p /\ inv[i].pc = "awaiting"

\* The panel createOrShow made last: panels are made in increasing order.
IsLastCreated(p) ==
    /\ panelState[p] # "none"
    /\ \A q \in Panels : q > p => panelState[q] = "none"

\* C18: while the panel created last has not been disposed, currentPanel
\* refers to it.
C18_CurrentPanelIsLastCreated ==
    \A p \in Panels :
        IsLastCreated(p) /\ panelState[p] = "live" => currentPanel = p

\* The contents of the response events among the first n events, in order.
RECURSIVE ResponseContents(_, _)
ResponseContents(events, n) ==
    IF n = 0 THEN <<>>
    ELSE ResponseContents(events, n - 1)
         \o (IF events[n].type = "response" THEN <<events[n].content>> ELSE <<>>)

\* The contents of the assistant turns among the first n turns, in order.
RECURSIVE AssistantContents(_, _)
AssistantContents(log, n) ==
    IF n = 0 THEN <<>>
    ELSE AssistantContents(log, n - 1)
         \o (IF log[n].role = "assistant" THEN <<log[n].content>> ELSE <<>>)

C20_UserTurnsLead ==
    \A p \in Panels :
        /\ messages[p] # <<>> => messages[p][1].role = "user"
        /\ \A n \in 0..Len(messages[p]) :
             UserTurns(messages[p], n) >= AssistantTurns(messages[p], n)

\* A log of two user turns followed by an assistant turn: a dangling user
\* turn, or two requests in flight, before an answer.
C20_Witness ==
    \E p \in Panels :
        /\ Len(messages[p]) >= 3
        /\ messages[p][1].role = "user"
        /\ messages[p][2].role = "user"
        /\ messages[p][3].role = "assistant"

\* C21: the envelope of an invocation ends with the user turn that same
\* invocation appended, whatever other invocations have appended to the log
\* since, while it was awaiting the network or after.
C21_EnvelopeEndsWithOwnUserTurn ==
    \A i \in Invs :
        inv[i].userIdx > 0 =>
            LET own == Log(i)[inv[i].userIdx] IN
            /\ inv[i].envelope # <<>>
            /\ Len(inv[i].envelope) = inv[i].userIdx
            /\ own = [role |-> "user", content |-> inv[i].message.text, timestamp |-> i]
            /\ inv[i].envelope[Len(inv[i].envelope)]
                 = [role |-> "user", content |-> inv[i].message.text]

\* A request has settled after another invocation, with a different
\* question, appended its user turn during the suspension.
C21_Witness ==
    \E i, j \in Invs :
        /\ i # j /\ inv[i].panel = inv[j].panel
        /\ Done(i) /\ KeyPresent(i)
        /\ inv[i].userIdx > 0 /\ inv[i].userIdx < inv[j].userIdx
        /\ inv[j].userIdx < inv[i].asstIdx
        /\ inv[i].message.text # inv[j].message.text

====
